---- MODULE Spec2Model ----
(***************************************************************************)
(* passwall-server: configuration start-up (internal/config), the login    *)
(* HTTP handlers (internal/api) and the e-mail application service         *)
(* (internal/app), with the session key manager the handlers depend on.    *)
(*                                                                         *)
(* Four specifications share the variables:                                *)
(*   SpecConfig   config.Init across process restarts                      *)
(*   SpecEmail    app.CreateEmail / app.UpdateEmail against the store      *)
(*   SpecLogin    the login handlers, one action per handled request       *)
(*   SpecSession  the transmission key manager in front of the handlers    *)
(***************************************************************************)
EXTENDS Integers, Sequences, FiniteSets, TLC

VARIABLES
    fileSys,        \* the configuration file on disk
    osEnv,          \* the process environment (PW_ENV, PW_SERVER_PASSPHRASE)
    viper,          \* viper's registries: defaults and the values read from the file
    configuration,  \* the global *Configuration that Init unmarshals into
    status,         \* "down" | "ok" (Init returned nil) | "err" (Init returned an error)
    created,        \* history: the passphrase of the run that created the file
    emailStore,     \* s.Emails(): id -> stored e-mail record
    emailCall,      \* the last call CreateEmail / UpdateEmail made into s.Emails()
    loginStore,     \* s.Logins(): id -> stored login record
    handler,        \* the handler that served the last request
    trace,          \* what that handler did, in order
    sessions,       \* transmission key manager: session id -> key and last use
    now,            \* the clock of the key manager
    lookupRes,      \* the result of the last lookup
    ctx             \* the request context the middleware handed to the handler

configVars  == <<fileSys, osEnv, viper, configuration, status, created>>
emailVars   == <<emailStore, emailCall>>
loginVars   == <<loginStore, handler, trace>>
sessionVars == <<sessions, now, lookupRes, ctx>>
vars == <<fileSys, osEnv, viper, configuration, status, created, emailStore,
          emailCall, loginStore, handler, trace, sessions, now, lookupRes, ctx>>

----------------------------------------------------------------------------
(* internal/config                                                          *)

\* a key that no registry holds
Unset == "<unset>"

\* the configuration keys the handlers and the cipher read
ConfigKeys == {"env", "passphrase"}

\* what crypto/rand can produce for a 32-byte key (base64-encoded)
RandomKeys == {"K1", "K2"}

PlaceholderKey == "add-your-key-to-here"

NoSettings == [env |-> Unset, passphrase |-> Unset]

NoFile    == [kind |-> "none", settings |-> NoSettings]
BadFile   == [kind |-> "malformed", settings |-> NoSettings]
Yaml(s)   == [kind |-> "yaml", settings |-> s]

\* values an operator can put under server.env / server.passphrase in the file
FileValues ==
    [env        |-> {Unset, "dev", "prod"},
     passphrase |-> {Unset, "", "user-passphrase"}]

\* values the environment variables bound in bindEnvs can hold
EnvValues ==
    [env        |-> {Unset, "dev", "prod"},
     passphrase |-> {Unset, "", "env-passphrase"}]

Files == {NoFile, BadFile}
           \cup {Yaml([env |-> e, passphrase |-> p]) :
                    e \in FileValues["env"], p \in FileValues["passphrase"]}

NoConfiguration == [Env |-> Unset, Passphrase |-> Unset]

FreshViper == [defaults |-> NoSettings, config |-> NoSettings]

generateKey(randOk, key) ==
    IF ~randOk THEN PlaceholderKey ELSE key

setDefaultsDev(randOk, key) ==
    [env |-> "dev", passphrase |-> generateKey(randOk, key)]

setDefaults(randOk, key) ==
    [env |-> "prod", passphrase |-> generateKey(randOk, key)]

\* bindEnvs: server.env <- PW_ENV, server.passphrase <- PW_SERVER_PASSPHRASE.
\* viper's lookup order for a bound key: environment (an empty variable counts
\* as not set), then the config file, then the default.
ViperGet(v, env, k) ==
    IF env[k] \notin {Unset, ""} THEN env[k]
    ELSE IF v.config[k] # Unset THEN v.config[k]
    ELSE v.defaults[k]

AllSettings(v, env) ==
    [env |-> ViperGet(v, env, "env"), passphrase |-> ViperGet(v, env, "passphrase")]

\* readConfiguration without the write of the defaults
readConfigurationNoWrite(fs, v, env, fsOutcome) ==
    IF fs.kind = "yaml"
    THEN [err |-> FALSE, file |-> fs, viper |-> [v EXCEPT !.config = fs.settings]]
    ELSE IF fs.kind = "none"
    THEN IF fsOutcome = "createFail"
         THEN [err |-> TRUE, file |-> NoFile, viper |-> v]
         ELSE [err |-> FALSE, file |-> Yaml(NoSettings), viper |-> v]
    ELSE [err |-> TRUE, file |-> fs, viper |-> v]

\* readConfiguration: ReadInConfig; when it fails and the file does not exist,
\* os.Create (its error ignored) and WriteConfig of all settings.
\* fsOutcome: "ok" | "createFail" (os.Create fails, so WriteConfig finds no
\* file) | "writeFail" (the file is created, WriteConfig fails).
readConfiguration(fs, v, env, fsOutcome) ==
    IF fs.kind = "yaml"
    THEN [err |-> FALSE, file |-> fs, viper |-> [v EXCEPT !.config = fs.settings]]
    ELSE IF fs.kind = "none"
    THEN IF fsOutcome = "createFail"
         THEN [err |-> TRUE, file |-> NoFile, viper |-> v]
         ELSE IF fsOutcome = "writeFail"
         THEN [err |-> TRUE, file |-> Yaml(NoSettings), viper |-> v]
         ELSE [err |-> FALSE, file |-> Yaml(AllSettings(v, env)), viper |-> v]
    ELSE [err |-> TRUE, file |-> fs, viper |-> v]

\* Init, as a function of the environment it starts in
InitResult(fs, env, randOk, key, fsOutcome) ==
    LET v0 == [FreshViper EXCEPT !.defaults = setDefaults(randOk, key)]
        rd == readConfiguration(fs, v0, env, fsOutcome)
    IN  IF rd.err
        THEN [err |-> TRUE, file |-> rd.file, viper |-> rd.viper,
              configuration |-> NoConfiguration]
        ELSE [err |-> FALSE, file |-> rd.file, viper |-> rd.viper,
              configuration |-> [Env        |-> ViperGet(rd.viper, env, "env"),
                                 Passphrase |-> ViperGet(rd.viper, env, "passphrase")]]

FsOutcomes == {"ok", "createFail", "writeFail"}

\* config.Init: one process start
config_Init ==
    /\ status = "down"
    /\ \E randOk \in BOOLEAN, key \in RandomKeys, fsOutcome \in FsOutcomes :
         LET r == InitResult(fileSys, osEnv, randOk, key, fsOutcome)
         IN  /\ fileSys' = r.file
             /\ viper' = r.viper
             /\ configuration' = r.configuration
             /\ status' = IF r.err THEN "err" ELSE "ok"
             /\ created' = IF /\ ~r.err
                              /\ fileSys.kind = "none"
                              /\ osEnv["passphrase"] \in {Unset, ""}
                           THEN r.configuration.Passphrase
                           ELSE created
    /\ UNCHANGED <<osEnv, emailVars, loginVars, sessionVars>>

\* the process exits; viper and the global configuration go with it
Shutdown ==
    /\ status # "down"
    /\ status' = "down"
    /\ viper' = FreshViper
    /\ configuration' = NoConfiguration
    /\ UNCHANGED <<fileSys, osEnv, created, emailVars, loginVars, sessionVars>>

\* the operator changes an environment variable between two runs
SetEnvVar ==
    /\ status = "down"
    /\ \E k \in ConfigKeys :
         \E val \in EnvValues[k] :
            /\ val # osEnv[k]
            /\ osEnv' = [osEnv EXCEPT ![k] = val]
    /\ UNCHANGED <<fileSys, viper, configuration, status, created,
                   emailVars, loginVars, sessionVars>>

\* the operator replaces or removes the configuration file between two runs
EditFile ==
    /\ status = "down"
    /\ \E f \in Files :
         /\ f # fileSys
         /\ fileSys' = f
    /\ created' = Unset
    /\ UNCHANGED <<osEnv, viper, configuration, status, emailVars, loginVars, sessionVars>>

\* the configuration state of a process that Init started successfully
Serving(fs, env, key) ==
    LET r == InitResult(fs, env, TRUE, key, "ok")
    IN  /\ ~r.err
        /\ fileSys = r.file
        /\ osEnv = env
        /\ viper = r.viper
        /\ configuration = r.configuration
        /\ status = "ok"
        /\ created = Unset

----------------------------------------------------------------------------
(* the record cipher and the model encryption engine (internal/app)         *)

\* what crypto/rand can produce for a nonce
Nonces == {"n1", "n2"}

\* a string field of a record: plaintext, or the blob of text under a nonce
Plain(text) == [enc |-> FALSE, text |-> text, nonce |-> ""]

Encrypt(text, nonce) == [enc |-> TRUE, text |-> text, nonce |-> nonce]

\* EncryptModel: every field tagged for encryption is replaced by its
\* ciphertext, empty or not; the other fields pass through
EncryptModel(rawModel, nonce) ==
    [rawModel EXCEPT !.Password = Encrypt(rawModel.Password.text, nonce)]

\* DecryptModel on a record whose blob authenticates
DecryptModel(encModel) ==
    [encModel EXCEPT !.Password = Plain(encModel.Password.text)]

----------------------------------------------------------------------------
(* internal/app: e-mails                                                    *)

MaxEmails == 2

EmailIDs == 1 .. MaxEmails

EmailDTOs ==
    [ID : {0}, Title : {"", "t1"}, Email : {"e1"}, Password : {"", "p1"}]

NoEmail == [ID |-> 0, Title |-> "", Email |-> "", Password |-> Plain("")]

NoEmailCall ==
    [op |-> "none", rec |-> NoEmail, dto |-> NoEmail, prior |-> NoEmail, ok |-> FALSE]

\* model.ToEmail
ToEmail(dto) ==
    [ID |-> dto.ID, Title |-> dto.Title, Email |-> dto.Email,
     Password |-> Plain(dto.Password)]

\* the record CreateEmail hands to s.Emails().Create
CreateEmailRecord(dto, nonce) ==
    LET rawModel == ToEmail(dto)
        encModel == EncryptModel(rawModel, nonce)
    IN  encModel

\* UpdateEmail that copies the password from the raw model
UpdateEmailRecordRaw(email, dto, nonce) ==
    LET rawModel == ToEmail(dto)
        encModel == EncryptModel(rawModel, nonce)
    IN  [email EXCEPT !.Title = encModel.Title,
                      !.Email = encModel.Email,
                      !.Password = rawModel.Password]

\* the record UpdateEmail hands to s.Emails().Update
UpdateEmailRecord(email, dto, nonce) ==
    LET rawModel == ToEmail(dto)
        encModel == EncryptModel(rawModel, nonce)
    IN  [email EXCEPT !.Title = encModel.Title,
                      !.Email = encModel.Email,
                      !.Password = encModel.Password]

FreeEmailIDs == {i \in EmailIDs : emailStore[i] = NoEmail}

\* app.CreateEmail; the store assigns the id and may fail
CreateEmail ==
    /\ FreeEmailIDs # {}
    /\ \E dto \in EmailDTOs, nonce \in Nonces, ok \in BOOLEAN :
         LET rec == CreateEmailRecord(dto, nonce)
             id  == CHOOSE i \in FreeEmailIDs : \A j \in FreeEmailIDs : i <= j
         IN  /\ emailCall' = [op |-> "Create", rec |-> rec, dto |-> ToEmail(dto),
                              prior |-> NoEmail, ok |-> ok]
             /\ emailStore' = IF ok
                              THEN [emailStore EXCEPT ![id] = [rec EXCEPT !.ID = id]]
                              ELSE emailStore
    /\ UNCHANGED <<configVars, loginVars, sessionVars>>

\* app.UpdateEmail on a record the caller found in the store
UpdateEmail ==
    \E id \in EmailIDs, dto \in EmailDTOs, nonce \in Nonces, ok \in BOOLEAN :
        /\ emailStore[id] # NoEmail
        /\ LET rec == UpdateEmailRecord(emailStore[id], dto, nonce)
           IN  /\ emailCall' = [op |-> "Update", rec |-> rec, dto |-> ToEmail(dto),
                                prior |-> emailStore[id], ok |-> ok]
               /\ emailStore' = IF ok THEN [emailStore EXCEPT ![id] = rec]
                                ELSE emailStore
        /\ UNCHANGED <<configVars, loginVars, sessionVars>>

\* the store's Delete, which frees the id
DeleteEmail ==
    \E id \in EmailIDs :
        /\ emailStore[id] # NoEmail
        /\ emailStore' = [emailStore EXCEPT ![id] = NoEmail]
        /\ emailCall' = NoEmailCall
        /\ UNCHANGED <<configVars, loginVars, sessionVars>>

----------------------------------------------------------------------------
(* internal/api: what a handler does, as a sequence of events               *)

Event(ev, ok, recs, note) ==
    [ev |-> ev, ok |-> ok, code |-> 0, recs |-> recs, note |-> note]

RespondWithError(code) ==
    [ev |-> "RespondWithError", ok |-> TRUE, code |-> code, recs |-> <<>>, note |-> ""]

\* the body is sealed with the transmission key
RespondWithEncJSON(code, transmissionKey, payload) ==
    [ev |-> "RespondWithEncJSON", ok |-> TRUE, code |-> code, recs |-> payload,
     note |-> transmissionKey]

RespondWithJSON(code, message) ==
    [ev |-> "RespondWithJSON", ok |-> TRUE, code |-> code, recs |-> <<>>,
     note |-> message]

ResponseEvents == {"RespondWithError", "RespondWithEncJSON", "RespondWithJSON"}

StorageEvents ==
    {"Logins.All", "Logins.FindByID", "Logins.Create", "Logins.Update", "Logins.Delete"}

----------------------------------------------------------------------------
(* logins: the store, the request bodies, the application service           *)

MaxLogins == 2

MaxBulk == 2

LoginIDs == 1 .. MaxLogins

LoginPasswords == {"p1", "p2"}

TransmissionKeys == {"tk1", "tk2"}

NoLogin == [ID |-> 0, Password |-> Plain("")]

NoContext == [transmissionKey |-> Unset]

\* model.ToLogin and model.ToLoginDTO copy the fields
ToLogin(dto) == [ID |-> dto.ID, Password |-> Plain(dto.Password)]

ToLoginDTO(login) == [ID |-> login.ID, Password |-> login.Password]

\* the rows of the tenant's schema, in id order
RECURSIVE Rows(_, _)
Rows(store, i) ==
    IF i > MaxLogins THEN <<>>
    ELSE IF store[i] = NoLogin THEN Rows(store, i + 1)
    ELSE <<store[i]>> \o Rows(store, i + 1)

FreeLoginIDs(store) == {i \in LoginIDs : store[i] = NoLogin}

\* the path variable "id": strconv.Atoi fails on a non-integer
PathIDs == {[ok |-> FALSE, n |-> 0]} \cup {[ok |-> TRUE, n |-> i] : i \in LoginIDs}

\* A request body: sealed under the transmission key, sealed but tampered or
\* under another key, or plain; and, once opened, JSON that decodes, JSON
\* with a syntax error (nothing is decoded) or JSON with a type error (the
\* decoder reports the error and fills what it could).
Body(form, json, dtos) == [form |-> form, json |-> json, dtos |-> dtos]

BodiesOf(lists) ==
    {Body("tampered", "ok", <<>>)}
      \cup {Body(f, "syntax", <<>>) : f \in {"sealed", "plain"}}
      \cup {Body(f, j, l) : f \in {"sealed", "plain"}, j \in {"ok", "type"}, l \in lists}

SingleBodies ==
    BodiesOf({<<[ID |-> 0, Password |-> p]>> : p \in LoginPasswords})

RECURSIVE SeqsUpTo(_, _)
SeqsUpTo(S, n) ==
    IF n = 0 THEN {<<>>}
    ELSE LET shorter == SeqsUpTo(S, n - 1)
         IN  shorter \cup {Append(l, x) : l \in {t \in shorter : Len(t) = n - 1}, x \in S}

\* bulk payloads of up to MaxBulk logins, each login named once
BulkLists ==
    {l \in SeqsUpTo({[ID |-> i, Password |-> "p2"] : i \in LoginIDs}, MaxBulk) :
        \A i, j \in DOMAIN l : i # j => l[i].ID # l[j].ID}

BulkBodies == BodiesOf(BulkLists)

\* ToBody(r, env, transmissionKey): nothing in dev; in prod the body is opened
\* with the transmission key
ToBody(body, env, transmissionKey) ==
    IF env = "dev"
    THEN [err |-> FALSE, body |-> body, mode |-> "passthrough"]
    ELSE IF body.form = "sealed"
    THEN [err |-> FALSE, body |-> [body EXCEPT !.form = "plain"], mode |-> "decrypt"]
    ELSE [err |-> TRUE, body |-> body, mode |-> "decrypt"]

ToBodyEvent(tb) == Event("ToBody", ~tb.err, <<>>, tb.mode)

\* json.NewDecoder(r.Body).Decode
Decode(body) ==
    IF body.form # "plain" \/ body.json = "syntax"
    THEN [err |-> TRUE, dtos |-> <<>>]
    ELSE [err |-> body.json # "ok", dtos |-> body.dtos]

DecodeEvent(dec) == Event("Decode", ~dec.err, <<>>, "")

\* s.Logins().FindByID
FindByID(store, id, dbErr) ==
    LET missing == dbErr \/ store[id] = NoLogin
    IN  [err |-> missing,
         login |-> IF missing THEN NoLogin ELSE store[id],
         event |-> Event("Logins.FindByID", ~missing, <<>>, "")]

\* app.CreateLogin: as app.CreateEmail, for logins
app_CreateLogin(store, dto, nonce, dbErr) ==
    LET rawModel == ToLogin(dto)
        encModel == EncryptModel(rawModel, nonce)
        free     == FreeLoginIDs(store)
        failed   == dbErr \/ free = {}
        id       == IF failed THEN 0 ELSE CHOOSE i \in free : \A j \in free : i <= j
        row      == [encModel EXCEPT !.ID = id]
    IN  [err   |-> failed,
         login |-> IF failed THEN NoLogin ELSE row,
         store |-> IF failed THEN store ELSE [store EXCEPT ![id] = row],
         event |-> Event("Logins.Create", ~failed, <<encModel>>, "")]

\* app.UpdateLogin: as app.UpdateEmail, for logins
app_UpdateLogin(store, login, dto, nonce, dbErr) ==
    LET rawModel == ToLogin(dto)
        encModel == EncryptModel(rawModel, nonce)
        row      == [login EXCEPT !.Password = encModel.Password]
    IN  [err   |-> dbErr,
         login |-> IF dbErr THEN NoLogin ELSE row,
         store |-> IF dbErr THEN store ELSE [store EXCEPT ![row.ID] = row],
         event |-> Event("Logins.Update", ~dbErr, <<row>>, "")]

\* app.DecryptModel on one record: the event and, when it succeeds, the record
DecryptEvent(login, fails) == Event("DecryptModel", ~fails, <<login>>, "")

----------------------------------------------------------------------------
(* internal/api: the login handlers.  Each is a function of the store, the  *)
(* request and the outcomes of the calls it makes, and yields the events of *)
(* the request and the store it leaves.  dbFail is the number of the storage*)
(* call that fails (0: none).                                               *)

Handled(events, store) == [trace |-> events, store |-> store]

\* the loop of FindAllLogins with the error of DecryptModel dropped
RECURSIVE DecryptLoopSwallow(_, _, _)
DecryptLoopSwallow(loginList, i, failing) ==
    IF i > Len(loginList)
    THEN [err |-> FALSE, list |-> loginList, events |-> <<>>]
    ELSE LET fails == loginList[i].ID \in failing
             rest  == DecryptLoopSwallow(
                          IF fails THEN loginList
                          ELSE [loginList EXCEPT ![i] = DecryptModel(loginList[i])],
                          i + 1, failing)
         IN  [rest EXCEPT !.events = <<DecryptEvent(loginList[i], fails)>> \o rest.events]

\* the loop of FindAllLogins: DecryptModel on loginList[i], return on error
RECURSIVE DecryptLoop(_, _, _)
DecryptLoop(loginList, i, failing) ==
    IF i > Len(loginList)
    THEN [err |-> FALSE, list |-> loginList, events |-> <<>>]
    ELSE IF loginList[i].ID \in failing
    THEN [err |-> TRUE, list |-> loginList,
          events |-> <<DecryptEvent(loginList[i], TRUE)>>]
    ELSE LET rest == DecryptLoop([loginList EXCEPT ![i] = DecryptModel(loginList[i])],
                                 i + 1, failing)
         IN  [rest EXCEPT !.events = <<DecryptEvent(loginList[i], FALSE)>> \o rest.events]

FindAllLogins(store, transmissionKey, dbFail, failing) ==
    LET loginList == Rows(store, 1)
        all       == Event("Logins.All", dbFail # 1, <<>>, "")
    IN  IF dbFail = 1
        THEN Handled(<<all, RespondWithError(404)>>, store)
        ELSE LET dec == DecryptLoop(loginList, 1, failing)
             IN  IF dec.err
                 THEN Handled(<<all>> \o dec.events \o <<RespondWithError(500)>>, store)
                 ELSE Handled(<<all>> \o dec.events
                                \o <<RespondWithEncJSON(200, transmissionKey, dec.list)>>,
                              store)

\* FindLoginsByID that answers with the stored record, through RespondWithJSON
FindLoginsByIDStored(store, transmissionKey, id, dbFail, decFails) ==
    IF ~id.ok
    THEN Handled(<<RespondWithError(400)>>, store)
    ELSE LET found == FindByID(store, id.n, dbFail = 1)
         IN  IF found.err
             THEN Handled(<<found.event, RespondWithError(404)>>, store)
             ELSE Handled(<<found.event,
                            [RespondWithJSON(200, "") EXCEPT
                                !.recs = <<ToLoginDTO(found.login)>>]>>,
                          store)

FindLoginsByID(store, transmissionKey, id, dbFail, decFails) ==
    IF ~id.ok
    THEN Handled(<<RespondWithError(400)>>, store)
    ELSE LET found == FindByID(store, id.n, dbFail = 1)
         IN  IF found.err
             THEN Handled(<<found.event, RespondWithError(404)>>, store)
             ELSE IF decFails
             THEN Handled(<<found.event, DecryptEvent(found.login, TRUE),
                            RespondWithError(500)>>, store)
             ELSE Handled(<<found.event, DecryptEvent(found.login, FALSE),
                            RespondWithEncJSON(200, transmissionKey,
                                <<ToLoginDTO(DecryptModel(found.login))>>)>>,
                          store)

\* CreateLogin from the decoding of the body on
CreateLoginDecoded(store, transmissionKey, body, dbFail, nonce, decFails) ==
    LET dec == Decode(body)
    IN  IF dec.err
        THEN Handled(<<DecodeEvent(dec), RespondWithError(400)>>, store)
        ELSE LET made == app_CreateLogin(store, dec.dtos[1], nonce, dbFail = 1)
             IN  IF made.err
                 THEN Handled(<<DecodeEvent(dec), made.event, RespondWithError(500)>>,
                              store)
                 ELSE IF decFails
                 THEN Handled(<<DecodeEvent(dec), made.event,
                                DecryptEvent(made.login, TRUE), RespondWithError(500)>>,
                              made.store)
                 ELSE Handled(<<DecodeEvent(dec), made.event,
                                DecryptEvent(made.login, FALSE),
                                RespondWithEncJSON(200, transmissionKey,
                                    <<ToLoginDTO(DecryptModel(made.login))>>)>>,
                              made.store)

\* CreateLogin that answers the failure of ToBody and goes on
api_CreateLoginNoReturn(store, env, transmissionKey, body, dbFail, nonce, decFails) ==
    LET tb   == ToBody(body, env, transmissionKey)
        rest == CreateLoginDecoded(store, transmissionKey, tb.body, dbFail, nonce, decFails)
    IN  IF tb.err
        THEN Handled(<<ToBodyEvent(tb), RespondWithError(400)>> \o rest.trace, rest.store)
        ELSE Handled(<<ToBodyEvent(tb)>> \o rest.trace, rest.store)

api_CreateLogin(store, env, transmissionKey, body, dbFail, nonce, decFails) ==
    LET tb == ToBody(body, env, transmissionKey)
    IN  IF tb.err
        THEN Handled(<<ToBodyEvent(tb), RespondWithError(400)>>, store)
        ELSE LET rest == CreateLoginDecoded(store, transmissionKey, tb.body, dbFail,
                                            nonce, decFails)
             IN  Handled(<<ToBodyEvent(tb)>> \o rest.trace, rest.store)

\* UpdateLogin from the decoding of the body on
UpdateLoginDecoded(store, transmissionKey, id, body, dbFail, nonce, decFails) ==
    LET dec == Decode(body)
    IN  IF dec.err
        THEN Handled(<<DecodeEvent(dec), RespondWithError(400)>>, store)
        ELSE LET found == FindByID(store, id, dbFail = 1)
             IN  IF found.err
                 THEN Handled(<<DecodeEvent(dec), found.event, RespondWithError(404)>>,
                              store)
                 ELSE LET upd == app_UpdateLogin(store, found.login, dec.dtos[1], nonce,
                                                 dbFail = 2)
                      IN  IF upd.err
                          THEN Handled(<<DecodeEvent(dec), found.event, upd.event,
                                         RespondWithError(500)>>, store)
                          ELSE IF decFails
                          THEN Handled(<<DecodeEvent(dec), found.event, upd.event,
                                         DecryptEvent(upd.login, TRUE),
                                         RespondWithError(500)>>, upd.store)
                          ELSE Handled(<<DecodeEvent(dec), found.event, upd.event,
                                         DecryptEvent(upd.login, FALSE),
                                         RespondWithEncJSON(200, transmissionKey,
                                             <<ToLoginDTO(DecryptModel(upd.login))>>)>>,
                                       upd.store)

api_UpdateLogin(store, env, transmissionKey, id, body, dbFail, nonce, decFails) ==
    IF ~id.ok
    THEN Handled(<<RespondWithError(400)>>, store)
    ELSE LET tb == ToBody(body, env, transmissionKey)
         IN  IF tb.err
             THEN Handled(<<ToBodyEvent(tb), RespondWithError(400)>>, store)
             ELSE LET rest == UpdateLoginDecoded(store, transmissionKey, id.n, tb.body,
                                                 dbFail, nonce, decFails)
                  IN  Handled(<<ToBodyEvent(tb)>> \o rest.trace, rest.store)

\* the loop of BulkUpdateLogins: FindByID and app.UpdateLogin per element,
\* the error response and return on the first failure
RECURSIVE BulkLoop(_, _, _, _, _)
BulkLoop(store, loginList, i, dbFail, nonces) ==
    IF i > Len(loginList)
    THEN [returned |-> FALSE, trace |-> <<>>, store |-> store]
    ELSE LET found == FindByID(store, loginList[i].ID, dbFail = 2 * i - 1)
         IN  IF found.err
             THEN [returned |-> TRUE, trace |-> <<found.event, RespondWithError(404)>>,
                   store |-> store]
             ELSE LET upd == app_UpdateLogin(store, found.login, loginList[i], nonces[i],
                                             dbFail = 2 * i)
                  IN  IF upd.err
                      THEN [returned |-> TRUE,
                            trace |-> <<found.event, upd.event, RespondWithError(500)>>,
                            store |-> store]
                      ELSE LET rest == BulkLoop(upd.store, loginList, i + 1, dbFail, nonces)
                           IN  [rest EXCEPT !.trace = <<found.event, upd.event>> \o rest.trace]

BulkUpdateLogins(store, env, transmissionKey, body, dbFail, nonces) ==
    LET tb == ToBody(body, env, transmissionKey)
    IN  IF tb.err
        THEN Handled(<<ToBodyEvent(tb), RespondWithError(400)>>, store)
        ELSE LET dec     == Decode(tb.body)
                 decoded == <<ToBodyEvent(tb), DecodeEvent(dec)>>
                              \o (IF dec.err THEN <<RespondWithError(500)>> ELSE <<>>)
                 loop    == BulkLoop(store, dec.dtos, 1, dbFail, nonces)
             IN  IF loop.returned
                 THEN Handled(decoded \o loop.trace, loop.store)
                 ELSE Handled(decoded \o loop.trace
                                \o <<RespondWithJSON(200, "Bulk update completed successfully!")>>,
                              loop.store)

DeleteLogin(store, id, dbFail) ==
    IF ~id.ok
    THEN Handled(<<RespondWithError(400)>>, store)
    ELSE LET found == FindByID(store, id.n, dbFail = 1)
         IN  IF found.err
             THEN Handled(<<found.event, RespondWithError(404)>>, store)
             ELSE IF dbFail = 2
             THEN Handled(<<found.event, Event("Logins.Delete", FALSE, <<>>, ""),
                            RespondWithError(404)>>, store)
             ELSE Handled(<<found.event, Event("Logins.Delete", TRUE, <<>>, ""),
                            RespondWithJSON(200, "Login deleted successfully!")>>,
                          [store EXCEPT ![id.n] = NoLogin])

----------------------------------------------------------------------------
(* one request per action; Done ends the request                            *)

EffectiveEnv == ViperGet(viper, osEnv, "env")

Idle == status = "ok" /\ handler = "idle"

Serve(name, transmissionKey, h) ==
    /\ handler' = name
    /\ trace' = h.trace
    /\ loginStore' = h.store
    /\ ctx' = [transmissionKey |-> transmissionKey]
    /\ UNCHANGED <<configVars, emailVars, sessions, now, lookupRes>>

Serve_FindAllLogins ==
    /\ Idle
    /\ \E key \in TransmissionKeys, dbFail \in 0 .. 1, failing \in SUBSET LoginIDs :
         Serve("FindAllLogins", key, FindAllLogins(loginStore, key, dbFail, failing))

Serve_FindLoginsByID ==
    /\ Idle
    /\ \E key \in TransmissionKeys, id \in PathIDs, dbFail \in 0 .. 1,
          decFails \in BOOLEAN :
         Serve("FindLoginsByID", key,
               FindLoginsByID(loginStore, key, id, dbFail, decFails))

Serve_CreateLogin ==
    /\ Idle
    /\ \E key \in TransmissionKeys, body \in SingleBodies, dbFail \in 0 .. 1,
          nonce \in Nonces, decFails \in BOOLEAN :
         Serve("CreateLogin", key,
               api_CreateLogin(loginStore, EffectiveEnv, key, body, dbFail, nonce,
                               decFails))

Serve_UpdateLogin ==
    /\ Idle
    /\ \E key \in TransmissionKeys, id \in PathIDs, body \in SingleBodies,
          dbFail \in 0 .. 2, nonce \in Nonces, decFails \in BOOLEAN :
         Serve("UpdateLogin", key,
               api_UpdateLogin(loginStore, EffectiveEnv, key, id, body, dbFail, nonce,
                               decFails))

Serve_BulkUpdateLogins ==
    /\ Idle
    /\ \E key \in TransmissionKeys, body \in BulkBodies :
         \E dbFail \in 0 .. 2 * Len(body.dtos), nonces \in [DOMAIN body.dtos -> Nonces] :
            Serve("BulkUpdateLogins", key,
                  BulkUpdateLogins(loginStore, EffectiveEnv, key, body, dbFail, nonces))

Serve_DeleteLogin ==
    /\ Idle
    /\ \E key \in TransmissionKeys, id \in PathIDs, dbFail \in 0 .. 2 :
         Serve("DeleteLogin", key, DeleteLogin(loginStore, id, dbFail))

\* the response is on the wire and the request is over
Done ==
    /\ handler # "idle"
    /\ handler' = "idle"
    /\ trace' = <<>>
    /\ ctx' = NoContext
    /\ UNCHANGED <<configVars, emailVars, loginStore, sessions, now, lookupRes>>

----------------------------------------------------------------------------
(* the transmission key manager and the middleware that consults it         *)

SessionIDs == {"s1", "s2"}

TTL == 2

MaxTime == 4

NoSession == [key |-> Unset, lastActive |-> 0, live |-> FALSE]

NoLookup ==
    [sid |-> Unset, at |-> 0, ok |-> FALSE, key |-> Unset, err |-> "", was |-> NoSession]

Expired(session, t) == t - session.lastActive >= TTL

\* lookup that still accepts the session at the instant it expires
lookupLate(ss, sid, t) ==
    IF ss[sid].live /\ t - ss[sid].lastActive <= TTL
    THEN [ok |-> TRUE, key |-> ss[sid].key, err |-> ""]
    ELSE [ok |-> FALSE, key |-> Unset, err |-> "UnknownSessionError"]

lookup(ss, sid, t) ==
    IF ss[sid].live /\ ~Expired(ss[sid], t)
    THEN [ok |-> TRUE, key |-> ss[sid].key, err |-> ""]
    ELSE [ok |-> FALSE, key |-> Unset, err |-> "UnknownSessionError"]

issue ==
    /\ \E sid \in SessionIDs, key \in TransmissionKeys :
         sessions' = [sessions EXCEPT ![sid] =
                         [key |-> key, lastActive |-> now, live |-> TRUE]]
    /\ UNCHANGED <<configVars, emailVars, loginVars, now, lookupRes, ctx>>

revoke ==
    /\ \E sid \in SessionIDs :
         /\ sessions[sid].live
         /\ sessions' = [sessions EXCEPT ![sid] = NoSession]
    /\ UNCHANGED <<configVars, emailVars, loginVars, now, lookupRes, ctx>>

\* expiry eviction
Evict ==
    /\ \E sid \in SessionIDs :
         /\ sessions[sid].live
         /\ Expired(sessions[sid], now)
         /\ sessions' = [sessions EXCEPT ![sid] = NoSession]
    /\ UNCHANGED <<configVars, emailVars, loginVars, now, lookupRes, ctx>>

Tick ==
    /\ now < MaxTime
    /\ now' = now + 1
    /\ UNCHANGED <<configVars, emailVars, loginVars, sessions, lookupRes, ctx>>

\* A request arrives under a session id: the middleware looks the session up
\* and, when it is known, puts its key in the context the handler reads
\* (r.Context().Value("transmissionKey")); otherwise the request is rejected.
Request ==
    /\ \E sid \in SessionIDs :
         LET r == lookup(sessions, sid, now)
         IN  /\ lookupRes' = [sid |-> sid, at |-> now, ok |-> r.ok, key |-> r.key,
                              err |-> r.err, was |-> sessions[sid]]
             /\ sessions' = IF r.ok
                            THEN [sessions EXCEPT ![sid].lastActive = now]
                            ELSE sessions
             /\ ctx' = IF r.ok THEN [transmissionKey |-> r.key] ELSE NoContext
    /\ UNCHANGED <<configVars, emailVars, loginVars, now>>

----------------------------------------------------------------------------
(* specifications                                                           *)

InitStores ==
    /\ emailStore = [i \in EmailIDs |-> NoEmail]
    /\ emailCall = NoEmailCall
    /\ loginStore = [i \in LoginIDs |-> NoLogin]
    /\ handler = "idle"
    /\ trace = <<>>
    /\ sessions = [sid \in SessionIDs |-> NoSession]
    /\ now = 0
    /\ lookupRes = NoLookup
    /\ ctx = NoContext

\* before the first start: no configuration file, nothing in the environment
Init ==
    /\ fileSys = NoFile
    /\ osEnv = NoSettings
    /\ viper = FreshViper
    /\ configuration = NoConfiguration
    /\ status = "down"
    /\ created = Unset
    /\ InitStores

\* the environments the server is started in: no configuration file, a file
\* that does not set server.env, a file that sets it to dev, and PW_ENV=dev
Deployments ==
    {<<NoFile, Unset>>, <<Yaml(NoSettings), Unset>>,
     <<Yaml([NoSettings EXCEPT !["env"] = "dev"]), Unset>>, <<NoFile, "dev">>}

\* a server that Init started in one of them
InitServing ==
    /\ \E dep \in Deployments :
         Serving(dep[1], [NoSettings EXCEPT !["env"] = dep[2]], "K1")
    /\ InitStores

\* a server on its first start, on the generated defaults
InitStarted ==
    /\ Serving(NoFile, NoSettings, "K1")
    /\ InitStores

NextConfig == config_Init \/ Shutdown \/ SetEnvVar \/ EditFile

NextEmail == CreateEmail \/ UpdateEmail \/ DeleteEmail

NextLogin ==
    \/ Serve_FindAllLogins
    \/ Serve_FindLoginsByID
    \/ Serve_CreateLogin
    \/ Serve_UpdateLogin
    \/ Serve_BulkUpdateLogins
    \/ Serve_DeleteLogin
    \/ Done

NextSession == issue \/ revoke \/ Evict \/ Tick \/ Request

Next == NextConfig \/ NextEmail \/ NextLogin \/ NextSession

Spec == Init /\ [][Next]_vars

SpecConfig == Init /\ [][NextConfig]_vars

SpecEmail == InitStarted /\ [][NextEmail]_vars

SpecLogin == InitServing /\ [][NextLogin]_vars

SpecSession == InitStarted /\ [][NextSession]_vars

----------------------------------------------------------------------------
(* properties                                                               *)

Positions(evs) == {i \in DOMAIN trace : trace[i].ev \in evs}

LastEvent == trace[Len(trace)]

\* C1: every record that CreateEmail or UpdateEmail hands to s.Emails() has
\* as its password the ciphertext EncryptModel makes of the DTO's password,
\* never the DTO's plaintext, whether the store then succeeds or fails; so no
\* stored record holds a plaintext password.
C1_PersistedPasswordIsCiphertext ==
    /\ emailCall.op # "none" =>
         /\ emailCall.rec.Password
              \in {Encrypt(emailCall.dto.Password.text, n) : n \in Nonces}
         /\ emailCall.rec.Password # emailCall.dto.Password
    /\ \A i \in EmailIDs : emailStore[i] # NoEmail => emailStore[i].Password.enc

C1_Witness ==
    /\ emailCall.op = "Update"
    /\ ~emailCall.ok
    /\ emailCall.dto.Password.text = "p1"
    /\ emailCall.rec.Password.enc

\* C2: when UpdateEmail is given a DTO that supplies the title and omits the
\* password, the record handed to s.Emails().Update keeps the stored password
\* blob of the existing record.
C2_OmittedFieldKeepsStoredBlob ==
    (/\ emailCall.op = "Update"
     /\ emailCall.dto.Title # ""
     /\ emailCall.dto.Password.text = "")
        => emailCall.rec.Password = emailCall.prior.Password

\* C3: in CreateLogin, UpdateLogin and BulkUpdateLogins the body is decoded
\* only after ToBody opened it; when ToBody fails the handler answers 400 and
\* returns: ToBody and the error response are all that happens, no decode, no
\* storage lookup, no create or update.
C3_EnvelopeOpenedBeforeDecode ==
    handler \in {"CreateLogin", "UpdateLogin", "BulkUpdateLogins"} =>
        \A i \in DOMAIN trace :
            /\ trace[i].ev = "Decode" =>
                 \E j \in 1 .. i - 1 : trace[j].ev = "ToBody" /\ trace[j].ok
            /\ trace[i].ev \in StorageEvents =>
                 \E j \in 1 .. i - 1 : trace[j].ev = "Decode"
            /\ (trace[i].ev = "ToBody" /\ ~trace[i].ok) =>
                 trace = <<trace[i], RespondWithError(400)>>

C3_Witness ==
    /\ handler = "CreateLogin"
    /\ Len(trace) = 2
    /\ trace[1].ev = "ToBody"
    /\ ~trace[1].ok

\* C4: when neither the configuration file nor PW_ENV sets server.env, the
\* effective mode is prod and ToBody runs in decrypting mode; and in dev as in
\* prod every record a handler creates or updates in the store went through
\* app.CreateLogin / app.UpdateLogin and carries an encrypted password.
C4_PassThroughIsNeverTheDefault ==
    /\ (viper.config["env"] = Unset /\ osEnv["env"] \in {Unset, ""}) =>
         /\ EffectiveEnv = "prod"
         /\ \A i \in Positions({"ToBody"}) : trace[i].note = "decrypt"
    /\ \A i \in Positions({"Logins.Create", "Logins.Update"}) :
         /\ Len(trace[i].recs) = 1
         /\ trace[i].recs[1].Password.enc

C4_Witness ==
    /\ viper.config["env"] = Unset
    /\ osEnv["env"] = Unset
    /\ handler = "CreateLogin"
    /\ \E i \in Positions({"ToBody"}) : trace[i].ok /\ trace[i].note = "decrypt"
    /\ \E i \in Positions({"Logins.Create"}) : trace[i].ok

\* C5: in FindAllLogins, FindLoginsByID, CreateLogin and UpdateLogin, when
\* DecryptModel fails for a record (the first or a later one of a list) the
\* failure ends the request: the only response is an error response, written
\* right after the failure, and it carries no record.
C5_DecryptFailureFailsTheRequest ==
    handler \in {"FindAllLogins", "FindLoginsByID", "CreateLogin", "UpdateLogin"} =>
        \A i \in Positions({"DecryptModel"}) :
            ~trace[i].ok =>
                /\ Len(trace) = i + 1
                /\ LastEvent = RespondWithError(500)
                /\ \A j \in Positions(ResponseEvents) : j = i + 1

C5_Witness ==
    /\ handler = "FindAllLogins"
    /\ \E i \in Positions({"DecryptModel"}) :
         /\ ~trace[i].ok
         /\ i > 1
         /\ trace[i - 1].ev = "DecryptModel"
         /\ trace[i - 1].ok

\* C6: a lookup returns a key only for a session that was issued, is not
\* revoked and is not past its TTL, and then the key issued for it; every
\* other lookup fails with UnknownSessionError and no key, whether the session
\* expired (at the TTL edge too) or never existed; and the context a handler
\* reads holds a transmission key only when the lookup of the request
\* succeeded.
C6_LookupOnlyLiveSessions ==
    /\ lookupRes.ok =>
         /\ lookupRes.was.live
         /\ lookupRes.at - lookupRes.was.lastActive < TTL
         /\ lookupRes.key = lookupRes.was.key
         /\ lookupRes.key # Unset
    /\ (lookupRes.sid # Unset /\ ~lookupRes.ok) =>
         /\ lookupRes.err = "UnknownSessionError"
         /\ lookupRes.key = Unset
    /\ ctx.transmissionKey # Unset =>
         /\ lookupRes.ok
         /\ ctx.transmissionKey = lookupRes.key

C6_Witness ==
    /\ lookupRes.sid # Unset
    /\ ~lookupRes.ok
    /\ lookupRes.was.live
    /\ lookupRes.at - lookupRes.was.lastActive = TTL
    /\ ctx = NoContext

\* C7: Init never returns successfully with an empty passphrase or with the
\* placeholder generateKey falls back to.
C7_InitRejectsInvalidPassphrase ==
    status = "ok" => configuration.Passphrase \notin {Unset, "", PlaceholderKey}

\* C8: when FindAllLogins, FindLoginsByID, CreateLogin or UpdateLogin
\* succeeds, the storage calls come first, then DecryptModel on each record,
\* then one RespondWithEncJSON under the transmission key of the request, and
\* every record in the sealed body is the decryption of a record DecryptModel
\* was given; no handler puts a record in a RespondWithJSON response.
C8_StoreThenDecryptThenSeal ==
    /\ \A i \in Positions({"RespondWithJSON"}) : trace[i].recs = <<>>
    /\ (/\ handler \in {"FindAllLogins", "FindLoginsByID", "CreateLogin", "UpdateLogin"}
        /\ LastEvent.ev # "RespondWithError") =>
          /\ LastEvent.ev = "RespondWithEncJSON"
          /\ LastEvent.note = ctx.transmissionKey
          /\ Positions({"RespondWithEncJSON"}) = {Len(trace)}
          /\ Positions(StorageEvents) # {}
          /\ \A p \in Positions(StorageEvents), d \in Positions({"DecryptModel"}) :
               p < d
          /\ Cardinality(Positions({"DecryptModel"})) = Len(LastEvent.recs)
          /\ \A k \in DOMAIN LastEvent.recs :
               /\ ~LastEvent.recs[k].Password.enc
               /\ \E d \in Positions({"DecryptModel"}) :
                    /\ trace[d].ok
                    /\ trace[d].recs[1].Password.enc
                    /\ LastEvent.recs[k] = ToLoginDTO(DecryptModel(trace[d].recs[1]))

C8_Witness ==
    /\ handler = "UpdateLogin"
    /\ LastEvent.ev = "RespondWithEncJSON"
    /\ Len(LastEvent.recs) = 1

\* C9: a login handler writes exactly one response, and after an error
\* response it makes no storage call.
C9_ExactlyOneResponse ==
    handler # "idle" =>
        /\ Cardinality(Positions(ResponseEvents)) = 1
        /\ \A i \in Positions({"RespondWithError"}), j \in Positions(StorageEvents) :
             j < i

\* C10: once a run of Init without a configuration file and without
\* PW_SERVER_PASSPHRASE has created the file, the file holds the passphrase
\* that run generated, and every later successful Init against that file, with
\* PW_SERVER_PASSPHRASE still not set, returns that same passphrase.
C10_PassphraseStableAcrossRestarts ==
    (created # Unset /\ osEnv["passphrase"] \in {Unset, ""}) =>
        /\ fileSys.kind = "yaml"
        /\ fileSys.settings["passphrase"] = created
        /\ status = "ok" => configuration.Passphrase = created

C10_Witness ==
    /\ created = "K1"
    /\ status = "ok"
    /\ viper.config["passphrase"] = "K1"
    /\ viper.defaults["passphrase"] = "K2"
    /\ configuration.Passphrase = "K1"

====
